---- MODULE Spec2Model ----
(***************************************************************************)
(* Model of transfer/style_transfer.py: the loss modules (ContentLoss,     *)
(* StyleLoss, gram_matrix), the pipeline assembler                         *)
(* get_style_model_and_losses and the optimisation loop                    *)
(* run_style_transfer.                                                     *)
(*                                                                         *)
(* The specifications share the variables:                                 *)
(*   AsmSpec     the layer walk and truncation of                          *)
(*               get_style_model_and_losses                                *)
(*   RunSpec     run_style_transfer on an assembled pipeline               *)
(*   FairRunSpec the same loop under weak fairness, for termination        *)
(*   LossSpec    forward passes of ContentLoss / StyleLoss on small        *)
(*               tensors                                                   *)
(***************************************************************************)
EXTENDS Integers, Sequences, FiniteSets, TLC

VARIABLES
    \* ---- get_style_model_and_losses ----
    cnn,             \* the backbone: sequence of layer kinds (cnn.children())
    content_layers,  \* requested content-tap names
    style_layers,    \* requested style-tap names
    model,           \* nn.Sequential: sequence of [name, mod] entries
    taps,            \* the loss modules created so far, by identity (index)
    content_losses,  \* list of ContentLoss identities
    style_losses,    \* list of StyleLoss identities
    i,               \* block index, incremented at every convolution
    pos,             \* position of the for loop in cnn (next layer to visit)
    apc,             \* "walking" | "returned" | "raised" | "idle"
    untrimmed,       \* the pipeline as it was just before truncation
    \* ---- run_style_transfer ----
    num_steps,       \* iteration budget
    run,             \* run[0], the step counter
    input_img,       \* the synthesized image: pixel -> value
    pc,              \* "loop" | "step" | "evaluated" | "updated" |
                     \* "returned" | "raised" | "idle"
    snapshots,       \* the save_image calls made: sequence of [step, img]
    nevals,          \* number of closure invocations so far
    stepEvals,       \* closure invocations inside the current optimizer.step
    writer,          \* who wrote input_img last: "caller"|"clamp"|"optimizer"
    clampHit,        \* the last clamp_ had an out-of-range value to correct
    nonFinite,       \* some closure evaluation produced a non-finite loss
    \* ---- ContentLoss / StyleLoss forward ----
    lmod,            \* the loss module under test: [cls, target, loss]
    farg,            \* the tensor passed to the last forward call
    fin,             \* that input tensor as the call left it
    fout,            \* what the call returned
    called           \* a forward call has been made

asmVars  == <<cnn, content_layers, style_layers, model, taps, content_losses,
              style_losses, i, pos, apc, untrimmed>>
runVars  == <<num_steps, run, input_img, pc, snapshots, nevals, stepEvals,
              writer, clampHit, nonFinite>>
lossVars == <<lmod, farg, fin, fout, called>>
vars     == <<asmVars, runVars, lossVars>>

(***************************************************************************)
(* Bounds                                                                  *)
(***************************************************************************)
MaxLayers  == 3   \* longest backbone walked
MaxTapIdx  == 1   \* largest block index a requested tap name may carry
MaxBudget  == 50  \* largest iteration budget (num_steps) tried
MaxEvals   == 3   \* most closure evaluations inside one optimizer.step
PixOver    == 1   \* how far outside [0,1] a written pixel value may lie
MaxFairBudget == 12  \* largest budget of the runs checked for termination
MaxAct     == 1   \* largest activation value fed to a loss module

(***************************************************************************)
(* Generic helpers                                                         *)
(***************************************************************************)
SeqsUpTo(S, n) == UNION {[1..k -> S] : k \in 0..n}

Range(s) == {s[k] : k \in DOMAIN s}

\* the largest element of a non-empty finite set of integers
SetMax(S) == CHOOSE m \in S : \A n \in S : n <= m

(***************************************************************************)
(* get_style_model_and_losses                                              *)
(***************************************************************************)
Recognized == {"Conv2d", "ReLU", "MaxPool2d", "BatchNorm2d"}

\* a layer class the walk does not know
Kinds == Recognized \cup {"Dropout"}

\* 'conv_{}'.format(i) etc.: a name is its prefix and the formatted number
LayerName(kind, n) ==
    CASE kind = "Conv2d"      -> <<"conv", n>>
      [] kind = "ReLU"        -> <<"relu", n>>
      [] kind = "MaxPool2d"   -> <<"pool", n>>
      [] kind = "BatchNorm2d" -> <<"bn", n>>

\* the module appended for backbone layer k: ReLU and MaxPool2d are replaced
\* by new modules, the others are kept
Substitute(kind, k) ==
    CASE kind = "ReLU"      -> [cls |-> "ReLU", ref |-> k]
      [] kind = "MaxPool2d" -> [cls |-> "AvgPool2d", ref |-> k]
      [] OTHER              -> [cls |-> kind, ref |-> k]

\* the block index after seeing a layer of this kind
BlockIndex(kind, n) == IF kind = "Conv2d" THEN n + 1 ELSE n

IsTap(mod) == mod.cls \in {"ContentLoss", "StyleLoss"}

\* nn.Sequential(normalization)
InitialModel == <<[name |-> <<"0", 0>>,
                   mod  |-> [cls |-> "Normalization", ref |-> 0]]>>

\* nn.Module.add_module: _modules[name] = module.  A new name is appended;
\* an existing name keeps its place and gets the new module.
AddModule(m, name, mod) ==
    IF \E k \in DOMAIN m : m[k].name = name
    THEN [k \in DOMAIN m |-> IF m[k].name = name
                             THEN [name |-> name, mod |-> mod]
                             ELSE m[k]]
    ELSE Append(m, [name |-> name, mod |-> mod])

\* the backbone layers (by ref) an image has passed through before stage k;
\* loss modules pass their input on unchanged
RECURSIVE PathBefore(_, _)
PathBefore(m, k) ==
    IF k <= 1 THEN <<>>
    ELSE IF IsTap(m[k - 1].mod) THEN PathBefore(m, k - 1)
         ELSE Append(PathBefore(m, k - 1), m[k - 1].mod.ref)

\* model(img): the activation that leaves the last stage
ModelOutput(m, img) == [img |-> img, path |-> PathBefore(m, Len(m) + 1)]

\* a loss module before its first forward pass has no .loss attribute
NoLoss == [img |-> "unset", path |-> <<>>]

\* model(img): every loss module that is a stage of m records a loss computed
\* from the activation that reaches it
ForwardTaps(m, tp, img) ==
    [t \in DOMAIN tp |->
        IF \E k \in DOMAIN m : IsTap(m[k].mod) /\ m[k].mod.ref = t
        THEN LET at == CHOOSE k \in DOMAIN m :
                           IsTap(m[k].mod) /\ m[k].mod.ref = t
             IN [tp[t] EXCEPT !.loss = [img |-> img,
                                        path |-> PathBefore(m, at)]]
        ELSE tp[t]]

\* the state of the walk
WalkState(m, tp, cl, sl, n) ==
    [model |-> m, taps |-> tp, content_losses |-> cl, style_losses |-> sl,
     i |-> n]

\* lines 153-158: the content tap, when the name is requested
AddContentLoss(st, name, k, wanted) ==
    IF name \in wanted
    THEN LET tp1 == ForwardTaps(st.model, st.taps, "content_img")
             id  == Len(tp1) + 1
             new == [cls |-> "ContentLoss",
                     target |-> [of |-> "features",
                                 act |-> ModelOutput(st.model, "content_img")],
                     loss |-> NoLoss, at |-> k]
         IN [st EXCEPT
               !.taps = Append(tp1, new),
               !.model = AddModule(st.model, <<"content_loss", st.i>>,
                                   [cls |-> "ContentLoss", ref |-> id]),
               !.content_losses = Append(st.content_losses, id)]
    ELSE st

\* lines 160-165: the style tap, when the name is requested
AddStyleLoss(st, name, k, wanted) ==
    IF name \in wanted
    THEN LET tp1 == ForwardTaps(st.model, st.taps, "style_img")
             id  == Len(tp1) + 1
             new == [cls |-> "StyleLoss",
                     target |-> [of |-> "gram",
                                 act |-> ModelOutput(st.model, "style_img")],
                     loss |-> NoLoss, at |-> k]
         IN [st EXCEPT
               !.taps = Append(tp1, new),
               !.model = AddModule(st.model, <<"style_loss", st.i>>,
                                   [cls |-> "StyleLoss", ref |-> id]),
               !.style_losses = Append(st.style_losses, id)]
    ELSE st

\* one iteration of the for loop over cnn.children(), for a recognized layer
\* of the given kind at backbone position k
LoopBody(st, kind, k, cwanted, swanted) ==
    LET n    == BlockIndex(kind, st.i)
        name == LayerName(kind, n)
        st1  == [st EXCEPT !.i = n,
                           !.model = AddModule(st.model, name,
                                               Substitute(kind, k))]
        st2  == AddContentLoss(st1, name, k, cwanted)
    IN AddStyleLoss(st2, name, k, swanted)

\* lines 168-170: the value of i after the backwards search, 0-based: the
\* index of the last loss module, or 0 when the loop runs to its end
TrimIndex(m) ==
    IF \E k \in DOMAIN m : IsTap(m[k].mod)
    THEN SetMax({k \in DOMAIN m : IsTap(m[k].mod)}) - 1
    ELSE 0

\* a slice that stops one stage early: model[:i]
Truncate_short(m) == SubSeq(m, 1, TrimIndex(m))

\* line 172: model[:(i + 1)]
Truncate(m) == SubSeq(m, 1, TrimIndex(m) + 1)

\* the names a caller may request
TapNames == {<<p, n>> : p \in {"conv", "relu"}, n \in 1..MaxTapIdx}

AsmIdle ==
    /\ cnn = <<>> /\ content_layers = {} /\ style_layers = {}
    /\ model = <<>> /\ taps = <<>>
    /\ content_losses = <<>> /\ style_losses = <<>>
    /\ i = 0 /\ pos = 0 /\ apc = "idle" /\ untrimmed = <<>>

RunIdle ==
    /\ num_steps = 0 /\ run = 0 /\ input_img = <<>> /\ pc = "idle"
    /\ snapshots = <<>> /\ nevals = 0 /\ stepEvals = 0
    /\ writer = "caller" /\ clampHit = FALSE /\ nonFinite = FALSE

LossIdle ==
    /\ lmod = <<>> /\ farg = <<>> /\ fin = <<>> /\ fout = <<>>
    /\ called = FALSE

\* lines 117-131: the state on entry to the for loop
AsmInit ==
    /\ cnn \in SeqsUpTo(Kinds, MaxLayers)
    /\ content_layers \in SUBSET TapNames
    /\ style_layers \in SUBSET TapNames
    /\ model = InitialModel
    /\ taps = <<>>
    /\ content_losses = <<>>
    /\ style_losses = <<>>
    /\ i = 0
    /\ pos = 1
    /\ apc = "walking"
    /\ untrimmed = <<>>
    /\ RunIdle
    /\ LossIdle

\* lines 132-165: visit the next layer
VisitLayer ==
    /\ apc = "walking"
    /\ pos <= Len(cnn)
    /\ cnn[pos] \in Recognized
    /\ LET st == LoopBody(WalkState(model, taps, content_losses,
                                    style_losses, i),
                          cnn[pos], pos, content_layers, style_layers)
       IN /\ model' = st.model
          /\ taps' = st.taps
          /\ content_losses' = st.content_losses
          /\ style_losses' = st.style_losses
          /\ i' = st.i
    /\ pos' = pos + 1
    /\ UNCHANGED <<cnn, content_layers, style_layers, apc, untrimmed>>
    /\ UNCHANGED <<runVars, lossVars>>

\* lines 148-149: an unrecognized layer ends the call with a RuntimeError
RaiseUnrecognized ==
    /\ apc = "walking"
    /\ pos <= Len(cnn)
    /\ cnn[pos] \notin Recognized
    /\ apc' = "raised"
    /\ UNCHANGED <<cnn, content_layers, style_layers, model, taps,
                   content_losses, style_losses, i, pos, untrimmed>>
    /\ UNCHANGED <<runVars, lossVars>>

\* lines 167-174: trim and return
TrimAndReturn ==
    /\ apc = "walking"
    /\ pos > Len(cnn)
    /\ untrimmed' = model
    /\ model' = Truncate(model)
    /\ i' = TrimIndex(model)
    /\ apc' = "returned"
    /\ UNCHANGED <<cnn, content_layers, style_layers, taps, content_losses,
                   style_losses, pos>>
    /\ UNCHANGED <<runVars, lossVars>>

AsmNext == VisitLayer \/ RaiseUnrecognized \/ TrimAndReturn

AsmSpec == AsmInit /\ [][AsmNext]_vars

(***************************************************************************)
(* run_style_transfer                                                      *)
(***************************************************************************)
PrintEvery == 10
SaveEvery  == 25

\* the whole of get_style_model_and_losses's walk over the first k layers
RECURSIVE Walk(_, _, _, _)
Walk(c, k, cwanted, swanted) ==
    IF k = 0
    THEN WalkState(InitialModel, <<>>, <<>>, <<>>, 0)
    ELSE LoopBody(Walk(c, k - 1, cwanted, swanted), c[k], k, cwanted, swanted)

Pixels == 1..2

\* values a tensor element may hold; [0,1] is the valid range
PixelValues == (0 - PixOver)..(1 + PixOver)

Images == [Pixels -> PixelValues]

\* a clamp that only bounds from above
Clamp_upper(v) == IF v > 1 THEN 1 ELSE v

\* Tensor.clamp_(0, 1) on one element
Clamp(v) == IF v < 0 THEN 0 ELSE IF v > 1 THEN 1 ELSE v

\* the out-of-place clamp(0, 1), whose result is dropped
ClampImage_dropped(img) == img

\* input_img.data.clamp_(0, 1)
ClampImage(img) == [p \in DOMAIN img |-> Clamp(img[p])]

\* a loop that stops one step early
LoopCond_lt(r, n) == r < n

\* line 199: the while condition
LoopCond(r, n) == r <= n

\* line 222
ShouldPrint(r) == r % PrintEvery = 0

\* a snapshot at the cadence of the progress report
ShouldSave_print(r) == r % PrintEvery = 0

\* line 228
ShouldSave(r) == r % SaveEvery = 0

\* lines 207-216: a score stays the Python int 0 unless a loss tensor was
\* added to it
ScoreIsTensor(losses) == losses # <<>>

\* lines 210-213: reading .loss of a module that never ran a forward pass
\* raises AttributeError
LossReadable(tp, losses) == \A k \in DOMAIN losses : tp[losses[k]].loss # NoLoss

\* the backbone and the tap requests of the modelled runs: a backbone with two
\* convolutions; conv_5 and conv_9 name depths it does not have
RunBackbone == <<"Conv2d", "ReLU", "MaxPool2d", "Conv2d", "ReLU">>

RunContentChoices == {{<<"conv", 2>>}, {<<"conv", 5>>}}

RunStyleChoices == {{<<"conv", 1>>, <<"relu", 2>>}, {<<"conv", 9>>}}

Budgets == {0, SaveEvery, MaxBudget}

\* lines 192-198: the state on entry to the while loop, for a budget in B
RunInitWith(B) ==
    /\ cnn = RunBackbone
    /\ content_layers \in RunContentChoices
    /\ style_layers \in RunStyleChoices
    /\ LET st == Walk(cnn, Len(cnn), content_layers, style_layers)
       IN /\ model = Truncate(st.model)
          /\ untrimmed = st.model
          /\ taps = st.taps
          /\ content_losses = st.content_losses
          /\ style_losses = st.style_losses
          /\ i = TrimIndex(st.model)
    /\ pos = Len(cnn) + 1
    /\ apc = "returned"
    /\ num_steps \in B
    /\ run = 0
    /\ input_img \in Images
    /\ pc = "loop"
    /\ snapshots = <<>>
    /\ nevals = 0
    /\ stepEvals = 0
    /\ writer = "caller"
    /\ clampHit = FALSE
    /\ nonFinite = FALSE
    /\ LossIdle

\* line 199 (condition true) and line 234: enter optimizer.step(closure)
StartStep ==
    /\ pc = "loop"
    /\ LoopCond(run, num_steps)
    /\ pc' = "step"
    /\ stepEvals' = 0
    /\ UNCHANGED <<num_steps, run, input_img, snapshots, nevals, writer,
                   clampHit, nonFinite>>
    /\ UNCHANGED <<asmVars, lossVars>>

\* lines 201-232: one evaluation of the closure.  finite is whether the total
\* loss computed from the images and the backbone is a finite number.
Closure(finite) ==
    /\ pc = "step"
    /\ LET img1 == ClampImage(input_img)
           tp1  == ForwardTaps(model, taps, "input_img")
           r1   == run + 1
       IN /\ input_img' = img1
          /\ writer' = "clamp"
          /\ clampHit' = (img1 # input_img)
          /\ taps' = tp1
          /\ nevals' = nevals + 1
          /\ stepEvals' = stepEvals + 1
          /\ IF \/ ~LossReadable(tp1, style_losses)
                \/ ~LossReadable(tp1, content_losses)
                \/ ~(ScoreIsTensor(style_losses)
                       \/ ScoreIsTensor(content_losses))
             THEN \* AttributeError at line 211/213, or at line 219: the
                  \* int 0 has no backward()
                  /\ pc' = "raised"
                  /\ UNCHANGED <<run, snapshots, nonFinite>>
             ELSE /\ run' = r1
                  /\ nonFinite' = (nonFinite \/ ~finite)
                  /\ IF ShouldPrint(r1)
                        /\ ~(ScoreIsTensor(style_losses)
                               /\ ScoreIsTensor(content_losses))
                     THEN \* AttributeError at line 225: the int 0 has no
                          \* item()
                          /\ pc' = "raised"
                          /\ UNCHANGED snapshots
                     ELSE /\ pc' = "evaluated"
                          /\ snapshots' =
                               IF ShouldSave(r1)
                               THEN Append(snapshots,
                                           [step |-> r1, img |-> img1])
                               ELSE snapshots
    /\ UNCHANGED num_steps
    /\ UNCHANGED <<cnn, content_layers, style_layers, model, content_losses,
                   style_losses, i, pos, apc, untrimmed>>
    /\ UNCHANGED lossVars

RunInit == RunInitWith(Budgets)

\* optimizer.step: the optimizer writes a new image and evaluates the closure
\* again
OptimizerUpdate(img) ==
    /\ pc = "evaluated"
    /\ stepEvals < MaxEvals
    /\ input_img' = img
    /\ writer' = "optimizer"
    /\ pc' = "step"
    /\ UNCHANGED <<num_steps, run, snapshots, nevals, stepEvals,
                   clampHit, nonFinite>>
    /\ UNCHANGED <<asmVars, lossVars>>

\* optimizer.step: the optimizer writes a new image and does not evaluate the
\* closure again before it returns
OptimizerLastUpdate(img) ==
    /\ pc = "evaluated"
    /\ input_img' = img
    /\ writer' = "optimizer"
    /\ pc' = "updated"
    /\ UNCHANGED <<num_steps, run, snapshots, nevals, stepEvals,
                   clampHit, nonFinite>>
    /\ UNCHANGED <<asmVars, lossVars>>

\* line 234: optimizer.step(closure) returns to the while loop
StepReturn ==
    /\ pc \in {"evaluated", "updated"}
    /\ pc' = "loop"
    /\ UNCHANGED <<num_steps, run, input_img, snapshots, nevals, stepEvals,
                   writer, clampHit, nonFinite>>
    /\ UNCHANGED <<asmVars, lossVars>>

\* line 199 (condition false) and lines 236-239: the last correction and the
\* return
Finish ==
    /\ pc = "loop"
    /\ ~LoopCond(run, num_steps)
    /\ input_img' = ClampImage(input_img)
    /\ writer' = "clamp"
    /\ clampHit' = (ClampImage(input_img) # input_img)
    /\ pc' = "returned"
    /\ UNCHANGED <<num_steps, run, snapshots, nevals, stepEvals,
                   nonFinite>>
    /\ UNCHANGED <<asmVars, lossVars>>

RunNext ==
    \/ StartStep
    \/ \E finite \in BOOLEAN : Closure(finite)
    \/ \E img \in Images : OptimizerUpdate(img)
    \/ \E img \in Images : OptimizerLastUpdate(img)
    \/ StepReturn
    \/ Finish

RunSpec == RunInit /\ [][RunNext]_vars

\* budgets of the runs checked for termination: the smallest, and one that
\* takes the counter past the first progress report
FairRunInit == RunInitWith({0, MaxFairBudget})

\* the program is one thread that always takes its next step
FairRunSpec == FairRunInit /\ [][RunNext]_vars /\ WF_vars(RunNext)

(***************************************************************************)
(* ContentLoss, StyleLoss, gram_matrix                                     *)
(*                                                                         *)
(* An activation of size (a=1, b, c, d) is held as its feature matrix      *)
(* input.view(a * b, c * d): channel -> position -> value.  A mean or a    *)
(* quotient is held exactly, as numerator and denominator.                 *)
(***************************************************************************)
Channels  == 1..2
Positions == 1..2

Acts == [Channels -> [Positions -> 0..MaxAct]]

ZeroAct == [r \in Channels |-> [p \in Positions |-> 0]]

RECURSIVE SumOver(_, _)
SumOver(f, S) ==
    IF S = {} THEN 0
    ELSE LET e == CHOOSE e \in S : TRUE
         IN f[e] + SumOver(f, S \ {e})

\* lines 71-82: G = features x features^T, divided by a * b * c * d
gram_matrix(input) ==
    [num |-> [r \in Channels |-> [c \in Channels |->
                 SumOver([p \in Positions |-> input[r][p] * input[c][p]],
                         Positions)]],
     den |-> Cardinality(Channels) * Cardinality(Positions)]

\* F.mse_loss of two feature matrices
MseFeatures(x, t) ==
    [num |-> SumOver([r \in Channels |->
                 SumOver([p \in Positions |->
                             (x[r][p] - t[r][p]) * (x[r][p] - t[r][p])],
                         Positions)], Channels),
     den |-> Cardinality(Channels) * Cardinality(Positions)]

\* F.mse_loss of two Gram matrices (both carry the same denominator)
MseGram(G, T) ==
    [num |-> SumOver([r \in Channels |->
                 SumOver([c \in Channels |->
                             (G.num[r][c] - T.num[r][c])
                               * (G.num[r][c] - T.num[r][c])],
                         Channels)], Channels),
     den |-> G.den * T.den * Cardinality(Channels) * Cardinality(Channels)]

\* a module that has not run yet has no loss
LossUnset == [num |-> 0, den |-> 0]

\* ContentLoss.__init__
ContentLoss_init(target) ==
    [cls |-> "ContentLoss", target |-> target, loss |-> LossUnset]

\* StyleLoss.__init__
StyleLoss_init(target_feature) ==
    [cls |-> "StyleLoss", target |-> gram_matrix(target_feature),
     loss |-> LossUnset]

\* ContentLoss.forward: the module after the call, the input tensor after the
\* call, and the returned tensor
ContentLoss_forward(self, input) ==
    [mod    |-> [self EXCEPT !.loss = MseFeatures(input, self.target)],
     input  |-> input,
     output |-> input]

\* a forward that hands on the Gram matrix it computed
StyleLoss_forward_gram(self, input) ==
    [mod    |-> [self EXCEPT
                   !.loss = MseGram(gram_matrix(input), self.target)],
     input  |-> input,
     output |-> gram_matrix(input).num]

\* StyleLoss.forward
StyleLoss_forward(self, input) ==
    [mod    |-> [self EXCEPT
                   !.loss = MseGram(gram_matrix(input), self.target)],
     input  |-> input,
     output |-> input]

LossInit ==
    /\ lmod \in {ContentLoss_init(t) : t \in Acts}
                  \cup {StyleLoss_init(t) : t \in Acts}
    /\ farg = ZeroAct
    /\ fin = ZeroAct
    /\ fout = ZeroAct
    /\ called = FALSE
    /\ AsmIdle
    /\ RunIdle

ContentForward(x) ==
    /\ lmod.cls = "ContentLoss"
    /\ LET r == ContentLoss_forward(lmod, x)
       IN /\ lmod' = r.mod
          /\ fin' = r.input
          /\ fout' = r.output
    /\ farg' = x
    /\ called' = TRUE
    /\ UNCHANGED <<asmVars, runVars>>

StyleForward(x) ==
    /\ lmod.cls = "StyleLoss"
    /\ LET r == StyleLoss_forward(lmod, x)
       IN /\ lmod' = r.mod
          /\ fin' = r.input
          /\ fout' = r.output
    /\ farg' = x
    /\ called' = TRUE
    /\ UNCHANGED <<asmVars, runVars>>

LossNext ==
    \/ \E x \in Acts : ContentForward(x)
    \/ \E x \in Acts : StyleForward(x)

LossSpec == LossInit /\ [][LossNext]_vars

(***************************************************************************)
(* Properties of get_style_model_and_losses                                *)
(***************************************************************************)
\* 1-based position of the last loss module of a pipeline, 0 when none
LastTapPos(m) ==
    IF \E k \in DOMAIN m : IsTap(m[k].mod)
    THEN SetMax({k \in DOMAIN m : IsTap(m[k].mod)})
    ELSE 0

IsPrefix(s, t) == Len(s) <= Len(t) /\ s = SubSeq(t, 1, Len(s))

\* C1 as stated: for every tap configuration the returned pipeline ends with a
\* loss module and has exactly (0-based index of its last loss module) + 1
\* stages.
C1_Claim ==
    apc = "returned" =>
        /\ IsTap(model[Len(model)].mod)
        /\ Len(model) = LastTapPos(model)

\* C1 amended: when at least one requested depth matched, the returned
\* pipeline is the built pipeline cut directly after its last loss module (its
\* last stage is a loss module); when no depth matched, the returned pipeline
\* is the Normalization stage alone.
C1_Amended ==
    apc = "returned" =>
        /\ IsPrefix(model, untrimmed)
        /\ IF content_losses # <<>> \/ style_losses # <<>>
           THEN /\ IsTap(model[Len(model)].mod)
                /\ Len(model) = LastTapPos(untrimmed)
           ELSE model = InitialModel

\* a run in which truncation dropped at least one stage behind the last tap
C1_Witness ==
    /\ apc = "returned"
    /\ content_losses # <<>>
    /\ style_losses # <<>>
    /\ Len(untrimmed) > Len(model)

\* the stage holding loss module t sits directly behind the layer whose name
\* matched (a style tap may sit behind the content tap of the same layer)
DirectlyAfter(m, k, t) ==
    /\ k > 1
    /\ \/ ~IsTap(m[k - 1].mod) /\ m[k - 1].mod.ref = taps[t].at
       \/ /\ taps[t].cls = "StyleLoss"
          /\ k > 2
          /\ m[k - 1].mod.cls = "ContentLoss"
          /\ taps[m[k - 1].mod.ref].at = taps[t].at
          /\ ~IsTap(m[k - 2].mod) /\ m[k - 2].mod.ref = taps[t].at

\* C8 as stated: every module of the two returned loss lists is a stage of
\* the returned pipeline, directly after the layer that matched it, and the
\* pipeline has len(content_losses) + len(style_losses) loss stages.
C8_Claim ==
    apc = "returned" =>
        /\ \A t \in Range(content_losses) \cup Range(style_losses) :
              \E k \in DOMAIN model :
                  /\ model[k].mod = [cls |-> taps[t].cls, ref |-> t]
                  /\ DirectlyAfter(model, k, t)
        /\ Cardinality({k \in DOMAIN model : IsTap(model[k].mod)})
              = Len(content_losses) + Len(style_losses)

NonTapStages(m) == SelectSeq(m, LAMBDA e : ~IsTap(e.mod))

\* C9 as stated: before truncation the non-tap stages are Normalization
\* followed by exactly one stage per backbone layer, in backbone order.
C9_Claim ==
    apc = "returned" =>
        LET nt == NonTapStages(untrimmed)
        IN /\ Len(nt) = Len(cnn) + 1
           /\ \A k \in DOMAIN nt : nt[k].mod.ref = k - 1

(***************************************************************************)
(* Properties of run_style_transfer                                        *)
(***************************************************************************)
InRange(img) == \A p \in DOMAIN img : 0 <= img[p] /\ img[p] <= 1

C4_Claim ==
    (pc # "idle" /\ (style_losses = <<>> \/ content_losses = <<>>))
        => pc # "raised"

\* C5: after N closure evaluations exactly floor(N/25) snapshots have been
\* written, the k-th at step counter value 25 * k.
C5_Thm ==
    /\ Len(snapshots) = nevals \div SaveEvery
    /\ \A k \in DOMAIN snapshots : snapshots[k].step = SaveEvery * k

C5_Witness ==
    /\ pc = "returned"
    /\ Len(snapshots) = 2
    /\ run > num_steps + 1

\* C6 as stated: once an evaluation has produced a non-finite loss the run
\* has aborted.
C6_Claim == nonFinite => pc = "raised"

\* C10: the counter starts at 0 and moves only by one, at a closure
\* evaluation, and every evaluation that returns moves it; a step is started
\* only while counter <= budget; at return counter > budget; a run that
\* raises no error returns.
C10_Thm ==
    /\ run = 0
    /\ [][/\ run' # run => (run' = run + 1 /\ nevals' = nevals + 1)
          /\ (nevals' # nevals /\ pc' = "evaluated") => run' = run + 1
          /\ (pc = "loop" /\ pc' = "step") => run <= num_steps]_vars
    /\ [](pc = "returned" => run > num_steps)
    /\ ([](pc # "raised") => <>(pc = "returned"))

\* a run returned with the largest budget, its last step having evaluated the
\* closure more than once
C10_Witness ==
    /\ pc = "returned"
    /\ num_steps = MaxFairBudget
    /\ stepEvals > 1
    /\ run > num_steps

(***************************************************************************)
(* Properties of the loss modules                                          *)
(***************************************************************************)
\* C7: a forward pass returns its input unchanged, leaves the input tensor
\* and the module's target unchanged, and changes only .loss.
C7_Thm ==
    [][/\ lmod'.cls = lmod.cls
       /\ lmod'.target = lmod.target
       /\ called' => (fout' = farg' /\ fin' = farg')]_vars

\* a StyleLoss module has run twice or more and holds a non-zero loss
C7_Witness ==
    /\ called
    /\ lmod.cls = "StyleLoss"
    /\ lmod.loss.den > 0
    /\ lmod.loss.num > 0

====
